---- MODULE Spec2Model ----
(***************************************************************************)
(* A model of the Daraja (M-Pesa) JavaScript SDK: the DarajaSDK client of  *)
(* src/src/index.js (configuration, the cached bearer token, one method    *)
(* per gateway endpoint) talking to a gateway that answers as it likes,   *)
(* and of the two demo servers built on it: the status page server of      *)
(* src/tests/daraja.test.js (payment initiation, status polls, the         *)
(* gateway's callback, an hourly cleanup) and the callback server of       *)
(* src/unnamed/part_001, each with its Map of transactions.                *)
(*                                                                         *)
(* JavaScript values.  A string is a TLA+ string; the two JavaScript       *)
(* non-values are the reserved strings undefined and null.  An error       *)
(* message is a sequence of string fragments, so that "prefix + message"   *)
(* is sequence concatenation and a prefix can be read back.  A response    *)
(* body is a record whose json field tells what JSON value it is.          *)
(***************************************************************************)
EXTENDS Integers, Sequences, FiniteSets, TLC

VARIABLES
    env,        \* process.env: environment variable name -> value
    config,     \* the configuration object passed to `new DarajaSDK(config)`
    sdk,        \* the DarajaSDK object (its fields), or NoSDK
    thrown,     \* what the constructor threw, or NoError
    pc,         \* per caller: where its invocation stands
    op,         \* per caller: the method it invoked
    callNo,     \* per caller: the number of its invocation in the run
    args,       \* per caller: the arguments of the invocation in progress
    http,       \* per caller: the request it has in flight, or NoRequest
    answered,   \* per caller: the gateway's last answer to it, or NoAnswer
    outcome,    \* per caller: what the invocation returned or threw
    calls,      \* number of invocations started so far
    netlog,     \* the traffic so far: requests [call, kind, direct] and
                \* answers [call, kind |-> "answer", to, ok, token, value]
    server,     \* which demo server runs: "tracking", "logging", or "none"
    transactions, \* the server's Map: CheckoutRequestID -> record, or NoRecord
    clock,      \* Date.now(), in milliseconds since the server started
    sweepDue,   \* when the cleanup timer of setInterval is next due
    paying,     \* the /initiate-payment request awaiting stkPush, or NoPayment
    last,       \* the last request or timer the server handled, and its reply
    settled,    \* per identifier: the status set by the callback that found its
                \* record PENDING, for as long as the record is kept
    polled      \* per identifier, where the polls are followed: whether a poll
                \* has returned a terminal status ("once", "again"), and
                \* whether the record has since grown older than one hour at a
                \* cleanup or was stored anew ("lost")

cfgVars == <<env, config, sdk, thrown>>
runVars == <<pc, op, callNo, args, http, answered, outcome, calls, netlog>>
srvVars == <<server, transactions, clock, sweepDue, paying, last, settled, polled>>
vars == <<env, config, sdk, thrown, pc, op, callNo, args, http, answered, outcome, calls, netlog,
          server, transactions, clock, sweepDue, paying, last, settled, polled>>

-----------------------------------------------------------------------------
(* JavaScript values *)

undefined == "<undefined>"
null == "<null>"

\* ToBoolean of a string-or-missing value: what `!value` and `a || b` test.
Truthy(v) == v # undefined /\ v # null /\ v # ""

\* a || b
Or(a, b) == IF Truthy(a) THEN a ELSE b

-----------------------------------------------------------------------------
(* Configuration: constructor and validateConfig *)

Fields ==
    <<"consumerKey", "consumerSecret", "environment", "businessShortCode",
      "passKey", "callbackUrl", "timeoutUrl", "resultUrl", "initiatorName",
      "securityCredential">>

FieldSet == {Fields[i] : i \in 1..Len(Fields)}

\* The environment variable the constructor falls back to, per field.
EnvName ==
    [consumerKey |-> "CONSUMER_KEY", consumerSecret |-> "CONSUMER_SECRET",
     environment |-> "ENVIRONMENT", businessShortCode |-> "BUSINESS_SHORT_CODE",
     passKey |-> "PASS_KEY", callbackUrl |-> "CALLBACK_URL",
     timeoutUrl |-> "TIMEOUT_URL", resultUrl |-> "RESULT_URL",
     initiatorName |-> "INITIATOR_NAME",
     securityCredential |-> "SECURITY_CREDENTIAL"]

EnvNames == {EnvName[f] : f \in FieldSet}

\* The `required` object of validateConfig, in insertion order: label, field.
required ==
    << <<"Consumer Key", "consumerKey">>,
       <<"Consumer Secret", "consumerSecret">>,
       <<"Business Short Code", "businessShortCode">>,
       <<"Pass Key", "passKey">>,
       <<"Callback URL", "callbackUrl">>,
       <<"Initiator Name", "initiatorName">>,
       <<"Security Credential", "securityCredential">> >>

\* Mutant of Resolve: the environment variable wins over the configuration.
ResolveEnvFirst(cfg, e, f) ==
    IF f = "environment"
    THEN Or(Or(e[EnvName[f]], cfg[f]), "sandbox")
    ELSE Or(e[EnvName[f]], cfg[f])

\* this.<field> = config.<field> || process.env.<NAME>  (|| 'sandbox' for environment)
Resolve(cfg, e, f) ==
    IF f = "environment"
    THEN Or(Or(cfg[f], e[EnvName[f]]), "sandbox")
    ELSE Or(cfg[f], e[EnvName[f]])

\* Array.prototype.join
RECURSIVE Join(_, _)
Join(seq, sep) ==
    IF Len(seq) = 0 THEN <<>>
    ELSE IF Len(seq) = 1 THEN <<seq[1]>>
    ELSE <<seq[1], sep>> \o Join(Tail(seq), sep)

\* Object.entries(required).filter(([_, value]) => !value).map(([key]) => key)
RECURSIVE MissingOf(_, _)
MissingOf(self, req) ==
    IF Len(req) = 0 THEN <<>>
    ELSE (IF ~Truthy(self[req[1][2]]) THEN <<req[1][1]>> ELSE <<>>)
         \o MissingOf(self, Tail(req))

NoError == [name |-> "none", message |-> <<>>]

JsError(msg) == [name |-> "Error", message |-> msg]

\* Mutant of validateConfig: `find` for `filter`, only the first missing name.
ValidateFirstMissing(self) ==
    LET missing == SubSeq(MissingOf(self, required), 1, 1)
    IN  IF Len(missing) > 0
        THEN JsError(<<"Missing required configuration: ">> \o Join(missing, ", ")
               \o <<". Please provide them in .env file or in the constructor.">>)
        ELSE NoError

\* validateConfig(): the error it throws, or NoError
validateConfig(self) ==
    LET missing == MissingOf(self, required)
    IN  IF Len(missing) > 0
        THEN JsError(<<"Missing required configuration: ">> \o Join(missing, ", ")
               \o <<". Please provide them in .env file or in the constructor.">>)
        ELSE NoError

NoSDK == [constructed |-> FALSE]

\* The object after the constructor's assignments and, when validation
\* passes, baseUrl and auth.
Constructor(cfg, e) ==
    LET self == [f \in FieldSet |-> Resolve(cfg, e, f)]
        err == validateConfig(self)
    IN  IF err # NoError
        THEN [obj |-> NoSDK, err |-> err]
        ELSE [obj |-> [constructed |-> TRUE,
                       fields |-> self,
                       baseUrl |-> IF self["environment"] = "production"
                                   THEN "https://api.safaricom.co.ke"
                                   ELSE "https://sandbox.safaricom.co.ke",
                       auth |-> null],
              err |-> NoError]

-----------------------------------------------------------------------------
(* Text that is encoded: a sequence of character codes (ASCII) *)

\* The characters of the strings that reach Buffer.from(...).
Chars(s) ==
    CASE s = "174379" -> <<49, 55, 52, 51, 55, 57>>
      [] s = "your_pass_key" ->
            <<121, 111, 117, 114, 95, 112, 97, 115, 115, 95, 107, 101, 121>>
      [] s = "bfb279f9" -> <<98, 102, 98, 50, 55, 57, 102, 57>>
      [] s = "bfb279f9a" -> <<98, 102, 98, 50, 55, 57, 102, 57, 97>>
      [] s = "your_consumer_key" ->
            <<121, 111, 117, 114, 95, 99, 111, 110, 115, 117, 109, 101, 114,
              95, 107, 101, 121>>
      [] s = "your_consumer_secret" ->
            <<121, 111, 117, 114, 95, 99, 111, 110, 115, 117, 109, 101, 114,
              95, 115, 101, 99, 114, 101, 116>>
      [] s = "254712345678" -> <<50, 53, 52, 55, 49, 50, 51, 52, 53, 54, 55, 56>>
      [] s = "25471234567a" -> <<50, 53, 52, 55, 49, 50, 51, 52, 53, 54, 55, 97>>

\* n written with exactly w decimal digits (n < 10^w), zero-padded.
RECURSIVE Pad(_, _)
Pad(n, w) == IF w = 0 THEN <<>> ELSE Pad(n \div 10, w - 1) \o <<48 + (n % 10)>>

\* Date.prototype.toISOString for the years 0000..9999:
\* YYYY-MM-DDTHH:mm:ss.sssZ
ToISOString(t) ==
    Pad(t.year, 4) \o <<45>> \o Pad(t.month, 2) \o <<45>> \o Pad(t.day, 2)
    \o <<84>> \o Pad(t.hour, 2) \o <<58>> \o Pad(t.minute, 2) \o <<58>>
    \o Pad(t.second, 2) \o <<46>> \o Pad(t.ms, 3) \o <<90>>

IsDigit(ch) == ch >= 48 /\ ch <= 57

\* .replace(/[^0-9]/g, '')
StripNonDigits(s) == SelectSeq(s, IsDigit)

\* .slice(0, -n)
DropLast(s, n) == SubSeq(s, 1, IF Len(s) > n THEN Len(s) - n ELSE 0)

\* Mutant of Timestamp: the milliseconds are not cut off.
TimestampKeepMillis(t) == StripNonDigits(ToISOString(t))

\* new Date().toISOString().replace(/[^0-9]/g, '').slice(0, -3)
Timestamp(t) == DropLast(StripNonDigits(ToISOString(t)), 3)

\* The base64 alphabet: the character of a 6-bit value.
B64Char(v) ==
    IF v < 26 THEN 65 + v
    ELSE IF v < 52 THEN 97 + (v - 26)
    ELSE IF v < 62 THEN 48 + (v - 52)
    ELSE IF v = 62 THEN 43 ELSE 47

\* Buffer.from(text).toString('base64'): three bytes become four characters,
\* a final group of one or two bytes is padded with '='.
RECURSIVE Base64(_)
Base64(b) ==
    IF Len(b) = 0 THEN <<>>
    ELSE IF Len(b) = 1
    THEN <<B64Char(b[1] \div 4), B64Char((b[1] % 4) * 16), 61, 61>>
    ELSE IF Len(b) = 2
    THEN <<B64Char(b[1] \div 4),
           B64Char((b[1] % 4) * 16 + b[2] \div 16),
           B64Char((b[2] % 16) * 4), 61>>
    ELSE <<B64Char(b[1] \div 4),
           B64Char((b[1] % 4) * 16 + b[2] \div 16),
           B64Char((b[2] % 16) * 4 + b[3] \div 64),
           B64Char(b[3] % 64)>> \o Base64(SubSeq(b, 4, Len(b)))

-----------------------------------------------------------------------------
(* The gateway's answers, as axios hands them to the client *)

JNull == [json |-> "null"]
JText(s) == [json |-> "string", text |-> s]

\* data.<name> of a parsed body that is not null (undefined when absent)
Prop(data, name) ==
    IF data.json = "object" /\ name \in DOMAIN data THEN data[name] ELSE undefined

NoAnswer == [kind |-> "none"]

\* What a caller remembers of the last answer: to which request it was.
NoAnswered == [to |-> "none", ans |-> NoAnswer]
Answered(to, ans) == [to |-> to, ans |-> ans]
NetworkFailure == [kind |-> "network"]
Response(status, data) == [kind |-> "response", status |-> status, data |-> data]

\* axios resolves on a 2xx status and rejects otherwise (validateStatus).
Is2xx(ans) == ans.kind = "response" /\ ans.status >= 200 /\ ans.status < 300

NoResponse == [status |-> 0, data |-> JNull]

\* The error axios rejects with: a response that is not 2xx, or no response.
AxiosError(ans) ==
    IF ans.kind = "response"
    THEN [name |-> "AxiosError",
          message |-> <<"Request failed with status code ", ToString(ans.status)>>,
          hasResponse |-> TRUE,
          response |-> [status |-> ans.status, data |-> ans.data]]
    ELSE [name |-> "AxiosError", message |-> <<"Network Error">>,
          hasResponse |-> FALSE, response |-> NoResponse]

\* new Error(message): no response property
PlainError(msg) ==
    [name |-> "Error", message |-> msg, hasResponse |-> FALSE,
     response |-> NoResponse]

\* Reading a property of null throws.
NullPropertyError(name) ==
    [name |-> "TypeError",
     message |-> <<"Cannot read properties of null (reading '", name, "')">>,
     hasResponse |-> FALSE, response |-> NoResponse]

Tokens == {"tokA", "tokB"}

\* What the token endpoint may answer.
TokenAnswers ==
    {Response(200, [json |-> "object", access_token |-> t, expires_in |-> "3599"]) :
        t \in Tokens}
    \cup {Response(200, [json |-> "object"]),
          Response(200, JNull),
          Response(401, [json |-> "object", errorMessage |-> "Invalid credentials"]),
          NetworkFailure}

OkBodies ==
    {[json |-> "object", ResponseCode |-> "0",
      CheckoutRequestID |-> "ws_CO_191220191020363925"],
     [json |-> "object", ResponseCode |-> "0", ResponseDescription |-> "Success"],
     JText("")}

ErrBodies ==
    {[json |-> "object", errorMessage |-> "Invalid phone number"],
     [json |-> "object", errorCode |-> "404.001.03"],
     JText(""),
     JNull}

ErrStatuses == {400, 401}

\* What an operation endpoint may answer.
PostAnswers ==
    {Response(200, b) : b \in OkBodies}
    \cup {Response(st, b) : st \in ErrStatuses, b \in ErrBodies}
    \cup {NetworkFailure}

-----------------------------------------------------------------------------
(* The requests of the client *)

Ops ==
    {"stkPush", "b2c", "transactionStatus", "accountBalance", "c2bRegisterUrl",
     "c2bSimulate", "b2b", "reversal", "stkPushQuery"}

Methods == Ops \cup {"generateToken"}

\* The path each operation posts to.
PathOf(o) ==
    CASE o = "stkPush" -> "/mpesa/stkpush/v1/processrequest"
      [] o = "b2c" -> "/mpesa/b2c/v1/paymentrequest"
      [] o = "transactionStatus" -> "/mpesa/transactionstatus/v1/query"
      [] o = "accountBalance" -> "/mpesa/accountbalance/v1/query"
      [] o = "c2bRegisterUrl" -> "/mpesa/c2b/v1/registerurl"
      [] o = "c2bSimulate" -> "/mpesa/c2b/v1/simulate"
      [] o = "b2b" -> "/mpesa/b2b/v1/paymentrequest"
      [] o = "reversal" -> "/mpesa/reversal/v1/request"
      [] o = "stkPushQuery" -> "/mpesa/stkpushquery/v1/query"

\* The prefix of the error each method throws from its catch block.
PrefixOf(o) ==
    CASE o = "generateToken" -> "Token generation failed: "
      [] o = "stkPush" -> "STK push failed: "
      [] o = "b2c" -> "B2C payment failed: "
      [] o = "transactionStatus" -> "Transaction status query failed: "
      [] o = "accountBalance" -> "Account balance query failed: "
      [] o = "c2bRegisterUrl" -> "C2B URL registration failed: "
      [] o = "c2bSimulate" -> "C2B simulation failed: "
      [] o = "b2b" -> "B2B payment failed: "
      [] o = "reversal" -> "Transaction reversal failed: "
      [] o = "stkPushQuery" -> "STK push query failed: "

NoArgs == [none |-> TRUE]

\* The arguments a caller may pass to each method.
ArgsOf(o) ==
    CASE o = "generateToken" -> {NoArgs}
      [] o = "stkPush" ->
            {[phoneNumber |-> "254712345678", amount |-> 1,
              accountReference |-> "TEST001", transactionDesc |-> "Test Payment"]}
      [] o = "b2c" ->
            {[amount |-> 100, phoneNumber |-> "254712345678",
              commandID |-> cmd, remarks |-> rem] :
                cmd \in {undefined, "", "SalaryPayment"},
                rem \in {undefined, "Refund Payment"}}
      [] o = "transactionStatus" -> {[transactionID |-> "OGR5100KTO"]}
      [] o = "accountBalance" -> {NoArgs}
      [] o = "c2bRegisterUrl" ->
            {[shortCode |-> undefined, responseType |-> undefined,
              confirmationUrl |-> undefined, validationUrl |-> undefined],
             [shortCode |-> "600000", responseType |-> "Cancelled",
              confirmationUrl |-> "https://example.com/confirm",
              validationUrl |-> "https://example.com/validate"]}
      [] o = "c2bSimulate" ->
            {[amount |-> 100, phoneNumber |-> "254712345678",
              billRefNumber |-> "TEST001"]}
      [] o = "b2b" ->
            {[amount |-> 1000, receiverShortCode |-> "600000",
              commandID |-> cmd, remarks |-> undefined] :
                cmd \in {undefined, "BusinessPayBill"}}
      [] o = "reversal" ->
            {[transactionID |-> "OGR5100KTO", amount |-> 100, remarks |-> undefined]}
      [] o = "stkPushQuery" ->
            {[checkoutRequestId |-> "ws_CO_191220191020363925"]}

\* The instants `new Date()` may return.
Times ==
    {[year |-> 2026, month |-> 11, day |-> 6, hour |-> 12, minute |-> 41,
      second |-> 7, ms |-> 45],
     [year |-> 2024, month |-> 1, day |-> 2, hour |-> 3, minute |-> 4,
      second |-> 5, ms |-> 6],
     [year |-> 1999, month |-> 12, day |-> 31, hour |-> 23, minute |-> 59,
      second |-> 59, ms |-> 999]}

\* Buffer.from(`${businessShortCode}${passKey}${timestamp}`).toString('base64')
PasswordOf(self, timestamp) ==
    Base64(Chars(self["businessShortCode"]) \o Chars(self["passKey"]) \o timestamp)

\* A default parameter value applies to undefined only.
Default(v, d) == IF v = undefined THEN d ELSE v

\* Mutant of B2CData: what the caller left unspecified is sent as it is,
\* no default takes its place.
B2CDataAsGiven(a, self) ==
    [InitiatorName |-> self["initiatorName"],
     SecurityCredential |-> self["securityCredential"],
     CommandID |-> a.commandID,
     Amount |-> a.amount,
     PartyA |-> self["businessShortCode"],
     PartyB |-> a.phoneNumber,
     Remarks |-> a.remarks,
     QueueTimeOutURL |-> self["timeoutUrl"],
     ResultURL |-> self["resultUrl"],
     Occasion |-> ""]

\* The `data` of b2c's request: `commandID || 'BusinessPayment'` and
\* `remarks || 'B2C Payment'`, the rest as given or configured.
B2CData(a, self) ==
    [InitiatorName |-> self["initiatorName"],
     SecurityCredential |-> self["securityCredential"],
     CommandID |-> Or(a.commandID, "BusinessPayment"),
     Amount |-> a.amount,
     PartyA |-> self["businessShortCode"],
     PartyB |-> a.phoneNumber,
     Remarks |-> Or(a.remarks, "B2C Payment"),
     QueueTimeOutURL |-> self["timeoutUrl"],
     ResultURL |-> self["resultUrl"],
     Occasion |-> ""]

\* The `data` of the operation's request.
DataOf(o, a, self, now) ==
    CASE o = "stkPush" ->
            LET timestamp == Timestamp(now)
            IN  [BusinessShortCode |-> self["businessShortCode"],
                 Password |-> PasswordOf(self, timestamp),
                 Timestamp |-> timestamp,
                 TransactionType |-> "CustomerPayBillOnline",
                 Amount |-> a.amount,
                 PartyA |-> a.phoneNumber,
                 PartyB |-> self["businessShortCode"],
                 PhoneNumber |-> a.phoneNumber,
                 CallBackURL |-> self["callbackUrl"],
                 AccountReference |-> a.accountReference,
                 TransactionDesc |-> a.transactionDesc]
      [] o = "b2c" -> B2CData(a, self)
      [] o = "transactionStatus" ->
            [Initiator |-> self["initiatorName"],
             SecurityCredential |-> self["securityCredential"],
             CommandID |-> "TransactionStatusQuery",
             TransactionID |-> a.transactionID,
             PartyA |-> self["businessShortCode"],
             IdentifierType |-> "4",
             ResultURL |-> self["resultUrl"],
             QueueTimeOutURL |-> self["timeoutUrl"],
             Remarks |-> "Transaction Status Query",
             Occasion |-> ""]
      [] o = "accountBalance" ->
            [Initiator |-> self["initiatorName"],
             SecurityCredential |-> self["securityCredential"],
             CommandID |-> "AccountBalance",
             PartyA |-> self["businessShortCode"],
             IdentifierType |-> "4",
             Remarks |-> "Account Balance Query",
             QueueTimeOutURL |-> self["timeoutUrl"],
             ResultURL |-> self["resultUrl"]]
      [] o = "c2bRegisterUrl" ->
            [ShortCode |-> Or(a.shortCode, self["businessShortCode"]),
             ResponseType |-> Or(a.responseType, "Completed"),
             ConfirmationURL |-> Or(a.confirmationUrl, self["callbackUrl"]),
             ValidationURL |-> Or(a.validationUrl, self["callbackUrl"])]
      [] o = "c2bSimulate" ->
            [ShortCode |-> self["businessShortCode"],
             CommandID |-> "CustomerPayBillOnline",
             Amount |-> a.amount,
             Msisdn |-> a.phoneNumber,
             BillRefNumber |-> a.billRefNumber]
      [] o = "b2b" ->
            [Initiator |-> self["initiatorName"],
             SecurityCredential |-> self["securityCredential"],
             CommandID |-> Default(a.commandID, "BusinessToBusinessTransfer"),
             SenderIdentifierType |-> "4",
             RecieverIdentifierType |-> "4",
             Amount |-> a.amount,
             PartyA |-> self["businessShortCode"],
             PartyB |-> a.receiverShortCode,
             AccountReference |-> "B2B Payment",
             Remarks |-> Or(a.remarks, "B2B Transfer"),
             QueueTimeOutURL |-> self["timeoutUrl"],
             ResultURL |-> self["resultUrl"]]
      [] o = "reversal" ->
            [Initiator |-> self["initiatorName"],
             SecurityCredential |-> self["securityCredential"],
             CommandID |-> "TransactionReversal",
             TransactionID |-> a.transactionID,
             Amount |-> a.amount,
             ReceiverParty |-> self["businessShortCode"],
             RecieverIdentifierType |-> "11",
             ResultURL |-> self["resultUrl"],
             QueueTimeOutURL |-> self["timeoutUrl"],
             Remarks |-> Or(a.remarks, "Transaction Reversal"),
             Occasion |-> ""]
      [] o = "stkPushQuery" ->
            LET timestamp == Timestamp(now)
            IN  [BusinessShortCode |-> self["businessShortCode"],
                 Password |-> PasswordOf(self, timestamp),
                 Timestamp |-> timestamp,
                 CheckoutRequestID |-> a.checkoutRequestId]

NoRequest == [method |-> "none"]

\* The token request of generateToken: GET with Basic base64(key:secret).
TokenRequest(s) ==
    [method |-> "get",
     url |-> <<s.baseUrl, "/oauth/v1/generate?grant_type=client_credentials">>,
     scheme |-> "Basic",
     credential |->
        Base64(Chars(s.fields["consumerKey"]) \o <<58>>
               \o Chars(s.fields["consumerSecret"]))]

\* The operation's request: POST with the token cached at that moment.
PostRequest(o, a, s, now) ==
    [method |-> "post",
     url |-> <<s.baseUrl, PathOf(o)>>,
     scheme |-> "Bearer",
     credential |-> s.auth,
     data |-> DataOf(o, a, s.fields, now)]

-----------------------------------------------------------------------------
(* The methods *)

NoOutcome == [kind |-> "none"]
Returned(v) == [kind |-> "return", value |-> v]
Threw(e) == [kind |-> "throw", error |-> e]

\* Mutant of Catch: the caught error is thrown on as it is.
CatchRethrow(o, error) == error

\* The error a method's catch block throws for the error it caught.  Only
\* stkPush looks at the response of the error; reading errorMessage of a
\* null body throws from inside the catch block.
Catch(o, error) ==
    IF o = "stkPush" /\ error.hasResponse
    THEN IF error.response.data.json = "null"
         THEN NullPropertyError("errorMessage")
         ELSE LET em == Prop(error.response.data, "errorMessage")
              IN  PlainError(<<PrefixOf(o)>>
                             \o (IF Truthy(em) THEN <<em>> ELSE error.message))
    ELSE PlainError(<<PrefixOf(o)>> \o error.message)

\* Mutant of GenerateToken: the token is returned but not kept in this.auth.
GenerateTokenNoCache(s, ans) ==
    IF Is2xx(ans)
    THEN IF ans.data.json = "null"
         THEN [auth |-> s.auth,
               result |-> Threw(CatchRethrow("generateToken",
                                             NullPropertyError("access_token")))]
         ELSE [auth |-> s.auth,
               result |-> Returned(Prop(ans.data, "access_token"))]
    ELSE [auth |-> s.auth,
          result |-> Threw(PlainError(<<PrefixOf("generateToken")>>
                                      \o AxiosError(ans).message))]

\* Mutant of GenerateToken: a failed exchange is swallowed, nothing is thrown.
GenerateTokenSwallow(s, ans) ==
    IF Is2xx(ans) /\ ans.data.json # "null"
    THEN [auth |-> Prop(ans.data, "access_token"),
          result |-> Returned(Prop(ans.data, "access_token"))]
    ELSE [auth |-> s.auth, result |-> Returned(undefined)]

\* Mutant of GenerateToken: a token already cached is kept, the new one is
\* returned but not stored.
GenerateTokenKeepFirst(s, ans) ==
    IF Is2xx(ans)
    THEN IF ans.data.json = "null"
         THEN [auth |-> s.auth,
               result |-> Threw(Catch("generateToken",
                                      NullPropertyError("access_token")))]
         ELSE [auth |-> IF Truthy(s.auth) THEN s.auth
                        ELSE Prop(ans.data, "access_token"),
               result |-> Returned(Prop(ans.data, "access_token"))]
    ELSE [auth |-> s.auth,
          result |-> Threw(Catch("generateToken", AxiosError(ans)))]

\* generateToken() once the token endpoint has answered: the token cached in
\* this.auth afterwards, and what the method returns or throws.
GenerateToken(s, ans) ==
    IF Is2xx(ans)
    THEN IF ans.data.json = "null"
         THEN [auth |-> s.auth,
               result |-> Threw(Catch("generateToken",
                                      NullPropertyError("access_token")))]
         ELSE [auth |-> Prop(ans.data, "access_token"),
               result |-> Returned(Prop(ans.data, "access_token"))]
    ELSE [auth |-> s.auth,
          result |-> Threw(Catch("generateToken", AxiosError(ans)))]

\* Mutant of Settle: the whole response is returned, not its data.
SettleWholeResponse(o, ans) ==
    IF Is2xx(ans)
    THEN Returned([json |-> "object", status |-> ans.status, data |-> ans.data])
    ELSE Threw(PlainError(<<PrefixOf(o)>> \o AxiosError(ans).message))

\* An operation once its endpoint has answered: response.data, or the catch.
Settle(o, ans) ==
    IF Is2xx(ans) THEN Returned(ans.data) ELSE Threw(Catch(o, AxiosError(ans)))

MaxCalls == 2
NumCallers == 2

Callers == 1..NumCallers

\* axios(request): the request leaves, the caller awaits the answer.
Send(c, n, o, req) ==
    /\ http' = [http EXCEPT ![c] = req]
    /\ netlog' = Append(netlog, [call |-> n, kind |-> req.method,
                                 direct |-> (o = "generateToken")])

\* The answer to the caller's request arrives.
Receive(c, to, ans, ok, token) ==
    /\ answered' = [answered EXCEPT ![c] = Answered(to, ans)]
    /\ http' = [http EXCEPT ![c] = NoRequest]
    /\ netlog' = Append(netlog, [call |-> callNo[c], kind |-> "answer",
                                 to |-> to, ok |-> ok, token |-> token,
                                 value |-> IF token THEN ans.data.access_token
                                           ELSE undefined])

\* Mutant of Call: an operation requests a new token on every invocation,
\* whether one is cached or not.
CallAlwaysRefresh(c, o, a) ==
    /\ pc[c] \in {"idle", "done"}
    /\ calls < MaxCalls
    /\ calls' = calls + 1
    /\ callNo' = [callNo EXCEPT ![c] = calls + 1]
    /\ op' = [op EXCEPT ![c] = o]
    /\ args' = [args EXCEPT ![c] = a]
    /\ answered' = [answered EXCEPT ![c] = NoAnswered]
    /\ outcome' = [outcome EXCEPT ![c] = NoOutcome]
    /\ Send(c, calls + 1, o, TokenRequest(sdk))
    /\ pc' = [pc EXCEPT ![c] = "token"]
    /\ UNCHANGED <<env, config, sdk, thrown>>
    /\ UNCHANGED srvVars

\* A caller invokes a method.  Up to its first await the method runs at once:
\* generateToken issues the token request; an operation does so when no token
\* is cached (`if (!this.auth) await this.generateToken()`), and otherwise
\* builds and issues its own request.
Call(c, o, a) ==
    /\ pc[c] \in {"idle", "done"}
    /\ calls < MaxCalls
    /\ calls' = calls + 1
    /\ callNo' = [callNo EXCEPT ![c] = calls + 1]
    /\ op' = [op EXCEPT ![c] = o]
    /\ args' = [args EXCEPT ![c] = a]
    /\ answered' = [answered EXCEPT ![c] = NoAnswered]
    /\ outcome' = [outcome EXCEPT ![c] = NoOutcome]
    /\ IF o = "generateToken" \/ ~Truthy(sdk.auth)
       THEN /\ Send(c, calls + 1, o, TokenRequest(sdk))
            /\ pc' = [pc EXCEPT ![c] = "token"]
       ELSE /\ \E now \in Times : Send(c, calls + 1, o, PostRequest(o, a, sdk, now))
            /\ pc' = [pc EXCEPT ![c] = "post"]
    /\ UNCHANGED <<env, config, sdk, thrown>>
    /\ UNCHANGED srvVars

\* The token endpoint answers.  generateToken caches the token or throws; a
\* direct call ends here, an operation that awaited it either continues or
\* ends in its catch block.
TokenAnswer(c, ans) ==
    /\ pc[c] = "token"
    /\ LET r == GenerateToken(sdk, ans)
       IN  /\ sdk' = [sdk EXCEPT !.auth = r.auth]
           /\ IF op[c] = "generateToken"
              THEN /\ outcome' = [outcome EXCEPT ![c] = r.result]
                   /\ pc' = [pc EXCEPT ![c] = "done"]
                   /\ args' = [args EXCEPT ![c] = NoArgs]
              ELSE IF r.result.kind = "throw"
              THEN /\ outcome' = [outcome EXCEPT
                                    ![c] = Threw(Catch(op[c], r.result.error))]
                   /\ pc' = [pc EXCEPT ![c] = "done"]
                   /\ args' = [args EXCEPT ![c] = NoArgs]
              ELSE /\ pc' = [pc EXCEPT ![c] = "resume"]
                   /\ UNCHANGED <<outcome, args>>
           /\ Receive(c, "get", ans, r.result.kind = "return",
                      r.result.kind = "return" /\ Truthy(r.result.value))
    /\ UNCHANGED <<env, config, thrown, op, callNo, calls>>
    /\ UNCHANGED srvVars

\* The operation continues after `await this.generateToken()`: it builds its
\* request with the token cached now and issues it.
Resume(c, now) ==
    /\ pc[c] = "resume"
    /\ Send(c, callNo[c], op[c], PostRequest(op[c], args[c], sdk, now))
    /\ pc' = [pc EXCEPT ![c] = "post"]
    /\ UNCHANGED <<env, config, sdk, thrown, op, callNo, args, answered, outcome, calls>>
    /\ UNCHANGED srvVars

\* How many requests of a kind invocation n has issued.
Count(kind, n) ==
    Cardinality({i \in DOMAIN netlog : netlog[i].kind = kind /\ netlog[i].call = n})

\* Mutant of PostAnswer: on a 401 the token is dropped, a new one is
\* requested and the operation is sent again (once).
PostAnswerRetry(c, ans) ==
    /\ pc[c] = "post"
    /\ IF ans.kind = "response" /\ ans.status = 401 /\ Count("post", callNo[c]) < 2
       THEN /\ sdk' = [sdk EXCEPT !.auth = null]
            /\ answered' = [answered EXCEPT ![c] = Answered("post", ans)]
            /\ Send(c, callNo[c], op[c], TokenRequest(sdk))
            /\ pc' = [pc EXCEPT ![c] = "token"]
            /\ UNCHANGED <<outcome, args>>
       ELSE /\ Receive(c, "post", ans, Is2xx(ans), FALSE)
            /\ outcome' = [outcome EXCEPT ![c] = Settle(op[c], ans)]
            /\ args' = [args EXCEPT ![c] = NoArgs]
            /\ pc' = [pc EXCEPT ![c] = "done"]
            /\ UNCHANGED sdk
    /\ UNCHANGED <<env, config, thrown, op, callNo, calls>>
    /\ UNCHANGED srvVars

\* Mutant of PostAnswer: an operation that fails drops the cached token, so
\* that the next one requests a new token.
PostAnswerInvalidate(c, ans) ==
    /\ pc[c] = "post"
    /\ Receive(c, "post", ans, Is2xx(ans), FALSE)
    /\ outcome' = [outcome EXCEPT ![c] = Settle(op[c], ans)]
    /\ args' = [args EXCEPT ![c] = NoArgs]
    /\ pc' = [pc EXCEPT ![c] = "done"]
    /\ sdk' = [sdk EXCEPT !.auth = IF Is2xx(ans) THEN sdk.auth ELSE null]
    /\ UNCHANGED <<env, config, thrown, op, callNo, calls>>
    /\ UNCHANGED srvVars

\* The operation's endpoint answers: the operation returns or throws.
PostAnswer(c, ans) ==
    /\ pc[c] = "post"
    /\ Receive(c, "post", ans, Is2xx(ans), FALSE)
    /\ outcome' = [outcome EXCEPT ![c] = Settle(op[c], ans)]
    /\ args' = [args EXCEPT ![c] = NoArgs]
    /\ pc' = [pc EXCEPT ![c] = "done"]
    /\ UNCHANGED <<env, config, sdk, thrown, op, callNo, calls>>
    /\ UNCHANGED srvVars

-----------------------------------------------------------------------------
(* The demo servers.  Each keeps `transactions`, a Map from the gateway's  *)
(* CheckoutRequestID to a record.  "tracking" is the status page server of *)
(* tests/daraja.test.js (initiate, poll, callback, hourly cleanup);        *)
(* "logging" is the callback server of unnamed/part_001.                   *)

Ids == {"ws_CO_1", "ws_CO_2"}
NoId == "<none>"

\* transactions.get(id) of an identifier the Map does not hold
NoRecord == [status |-> "<absent>"]
NoTransactions == [id \in Ids |-> NoRecord]

HourMs == 60 * 60 * 1000

\* The clock moves by the hour, MaxTicks times.
TickMs == HourMs
MaxTicks == 2

JObject == [json |-> "object"]
JArray(items) == [json |-> "array", items |-> items]

\* data has the property (and data is an object)
Has(data, name) == data.json = "object" /\ name \in DOMAIN data

\* One item of CallbackMetadata.Item; a Value is written as its JSON text.
Item(name, value) == [Name |-> name, Value |-> value]

ItemsInOrder ==
    <<Item("Amount", "500"), Item("MpesaReceiptNumber", "ABC123"),
      Item("TransactionDate", "20191219102115"), Item("PhoneNumber", "254708374149")>>

ItemsShuffled ==
    <<Item("PhoneNumber", "254712345678"), Item("Balance", "0"),
      Item("TransactionDate", "20240101120000"),
      Item("MpesaReceiptNumber", "XYZ789"), Item("Amount", "1")>>

ItemsPartial ==
    <<Item("Amount", "500"), Item("MpesaReceiptNumber", "ABC123")>>

\* Body.stkCallback as the gateway sends it, without and with metadata
StkCallback(id, code, desc) ==
    [json |-> "object", MerchantRequestID |-> "29115-34620561-1",
     CheckoutRequestID |-> id, ResultCode |-> code, ResultDesc |-> desc]

WithMetadata(cb, item) ==
    [json |-> "object", MerchantRequestID |-> cb.MerchantRequestID,
     CheckoutRequestID |-> cb.CheckoutRequestID, ResultCode |-> cb.ResultCode,
     ResultDesc |-> cb.ResultDesc,
     CallbackMetadata |-> [json |-> "object", Item |-> item]]

CallbackBody(cb) ==
    [json |-> "object", Body |-> [json |-> "object", stkCallback |-> cb]]

Paid(id) == StkCallback(id, 0, "The service request is processed successfully.")
Cancelled(id) == StkCallback(id, 1032, "Request cancelled by user")

\* The bodies POSTed to /mpesa/callback: results of payments, paid (without
\* metadata, with the item lists above, with an Item that is no array) or
\* cancelled, and two bodies that lack Body or stkCallback.
MalformedBodies == {JObject, [json |-> "object", Body |-> JObject]}

CallbackBodies ==
    {CallbackBody(cb) :
        cb \in {Paid(id) : id \in Ids} \cup {Cancelled(id) : id \in Ids}
               \cup {WithMetadata(Paid("ws_CO_1"), JArray(ItemsInOrder)),
                     WithMetadata(Paid("ws_CO_1"), JArray(ItemsPartial)),
                     WithMetadata(Paid("ws_CO_2"), JArray(ItemsShuffled)),
                     WithMetadata(Paid("ws_CO_2"), JObject)}}
    \cup MalformedBodies

\* `const { Body: { stkCallback } } = req.body` finds an object to destructure
WellFormed(body) == Has(body, "Body") /\ Has(body.Body, "stkCallback")

Reply(status, body) == [status |-> status, body |-> body]

Ack == Reply(200, [ResultCode |-> 0, ResultDesc |-> "Success"])

\* The answer of a handler: the Map afterwards and the HTTP reply.
Handled(map, reply) == [transactions |-> map, reply |-> reply]

\* Mutant of TrackingCallback: a callback for a record that is terminal
\* already is rejected as a duplicate and marks the record FAILED.
TrackingCallbackDuplicate(map, body, t) ==
    IF WellFormed(body)
    THEN LET stkCallback == body.Body.stkCallback
             known == map[stkCallback.CheckoutRequestID].status \in {"COMPLETE", "FAILED"}
         IN  Handled([map EXCEPT ![stkCallback.CheckoutRequestID] =
                        [status |-> IF stkCallback.ResultCode = 0 /\ ~known
                                    THEN "COMPLETE" ELSE "FAILED",
                         message |-> IF known THEN "Duplicate callback"
                                     ELSE stkCallback.ResultDesc,
                         timestamp |-> t]],
                     Ack)
    ELSE Handled(map, Reply(500, [ResultCode |-> 1,
                                  ResultDesc |-> "Error processing callback"]))

\* Mutant of TrackingCallback: a payment that failed is opened again, its
\* record goes back to PENDING.
TrackingCallbackReopen(map, body, t) ==
    IF WellFormed(body)
    THEN LET stkCallback == body.Body.stkCallback
         IN  Handled([map EXCEPT ![stkCallback.CheckoutRequestID] =
                        [status |-> IF stkCallback.ResultCode = 0
                                    THEN "COMPLETE" ELSE "PENDING",
                         message |-> stkCallback.ResultDesc,
                         timestamp |-> t]],
                     Ack)
    ELSE Handled(map, Reply(500, [ResultCode |-> 1,
                                  ResultDesc |-> "Error processing callback"]))

\* app.post('/mpesa/callback') of the tracking server: the record of the
\* identifier is set whatever it was; a body that cannot be destructured
\* throws into the catch block.
TrackingCallback(map, body, t) ==
    IF WellFormed(body)
    THEN LET stkCallback == body.Body.stkCallback
         IN  Handled([map EXCEPT ![stkCallback.CheckoutRequestID] =
                        [status |-> IF stkCallback.ResultCode = 0
                                    THEN "COMPLETE" ELSE "FAILED",
                         message |-> stkCallback.ResultDesc,
                         timestamp |-> t]],
                     Ack)
    ELSE Handled(map, Reply(500, [ResultCode |-> 1,
                                  ResultDesc |-> "Error processing callback"]))

\* CallbackMetadata.Item.find(item => item.Name === name): its index, or 0
RECURSIVE Find(_, _, _)
Find(items, name, i) ==
    IF i > Len(items) THEN 0
    ELSE IF items[i].Name = name THEN i
    ELSE Find(items, name, i + 1)

\* Mutant of getMetadataValue: the items are read by position, in the order
\* the gateway documents them.
getMetadataValueByPosition(items, name) ==
    LET i == CASE name = "Amount" -> 1
               [] name = "MpesaReceiptNumber" -> 2
               [] name = "TransactionDate" -> 3
               [] OTHER -> 4
    IN  IF i > Len(items) THEN null ELSE items[i].Value

getMetadataValue(items, name) ==
    LET i == Find(items, name, 1) IN IF i = 0 THEN null ELSE items[i].Value

\* new Date().toISOString() at instant t, kept as the instant it writes
IsoText(t) == [iso |-> t]

\* app.all('/mpesa/callback') of the logging server: a GET is a browser test;
\* a POST stores a record only for ResultCode 0 with metadata items; an Item
\* that is no array throws into the catch block, which acknowledges too.
LoggingCallback(map, method, body, t) ==
    IF method = "GET"
    THEN Handled(map, Reply(200,
            [message |-> "This is the M-Pesa callback URL",
             note |-> "The actual callback will be a POST request from M-Pesa",
             status |-> "Active and waiting for callbacks"]))
    ELSE IF ~WellFormed(body) THEN Handled(map, Ack)
    ELSE LET stkCallback == body.Body.stkCallback
         IN  IF /\ stkCallback.ResultCode = 0
                /\ Has(stkCallback, "CallbackMetadata")
                /\ Has(stkCallback.CallbackMetadata, "Item")
             THEN LET Items == stkCallback.CallbackMetadata.Item
                  IN  IF Items.json = "array"
                      THEN Handled([map EXCEPT ![stkCallback.CheckoutRequestID] =
                              [amount |-> getMetadataValue(Items.items, "Amount"),
                               receiptNumber |->
                                   getMetadataValue(Items.items, "MpesaReceiptNumber"),
                               transactionDate |->
                                   getMetadataValue(Items.items, "TransactionDate"),
                               phoneNumber |->
                                   getMetadataValue(Items.items, "PhoneNumber"),
                               rawCallback |-> body,
                               status |-> "SUCCESS",
                               timestamp |-> IsoText(t)]],
                             Ack)
                      ELSE Handled(map, Ack)
             ELSE Handled(map, Ack)

\* Mutant of PaymentStatus: an identifier asked for and not found is
\* remembered as a record.
PaymentStatusRemember(map, id) ==
    IF map[id] = NoRecord
    THEN Handled([map EXCEPT ![id] = [status |-> "UNKNOWN", timestamp |-> 0]],
                 Reply(200, [status |-> "UNKNOWN",
                             message |-> "Transaction not found"]))
    ELSE Handled(map, Reply(200,
            [status |-> map[id].status,
             message |-> IF "message" \in DOMAIN map[id]
                         THEN Or(map[id].message, "") ELSE ""]))

\* app.get('/payment-status/:checkoutRequestId') of the tracking server
PaymentStatus(map, id) ==
    IF map[id] = NoRecord
    THEN Handled(map, Reply(200, [status |-> "UNKNOWN",
                                  message |-> "Transaction not found"]))
    ELSE Handled(map, Reply(200,
            [status |-> map[id].status,
             message |-> IF "message" \in DOMAIN map[id]
                         THEN Or(map[id].message, "") ELSE ""]))

\* app.get('/transaction/:checkoutRequestId') of the logging server
GetTransaction(map, id) ==
    IF map[id] # NoRecord
    THEN Handled(map, Reply(200, [status |-> "success", data |-> map[id]]))
    ELSE Handled(map, Reply(200, [status |-> "not_found",
                                  message |-> "Transaction not found"]))

\* Mutant of Cleanup: a record exactly one hour old is deleted too.
CleanupInclusive(map, t) ==
    LET oneHourAgo == t - HourMs
    IN  [id \in Ids |->
            IF map[id] # NoRecord /\ map[id].timestamp <= oneHourAgo
            THEN NoRecord ELSE map[id]]

\* The cleanup timer's callback at instant t
Cleanup(map, t) ==
    LET oneHourAgo == t - HourMs
    IN  [id \in Ids |->
            IF map[id] # NoRecord /\ map[id].timestamp < oneHourAgo
            THEN NoRecord ELSE map[id]]

\* phoneNumber.match(/^254[0-9]{9}$/)
MatchesPhone(phoneNumber) ==
    LET cs == Chars(phoneNumber)
    IN  /\ Len(cs) = 12
        /\ SubSeq(cs, 1, 3) = <<50, 53, 52>>
        /\ \A i \in 4..12 : IsDigit(cs[i])

Phones == {"254712345678", "25471234567a"}
Amounts == {0, 1}

\* What stkPush is answered while /initiate-payment awaits it.
PushAnswers ==
    {Response(200, [json |-> "object", ResponseCode |-> "0",
                    CheckoutRequestID |-> id]) : id \in Ids}
    \cup {Response(400, [json |-> "object", errorMessage |-> "Invalid phone number"]),
          NetworkFailure}

NoPayment == [phoneNumber |-> "<none>", amount |-> 0]

\* Mutant of InitiatePayment: the amount is not looked at.
InitiatePaymentAnyAmount(phoneNumber, amount) ==
    IF ~MatchesPhone(phoneNumber)
    THEN [paying |-> NoPayment,
          reply |-> Reply(400, [success |-> FALSE,
                message |-> <<"Invalid phone number format. Use 254XXXXXXXXX">>])]
    ELSE [paying |-> [phoneNumber |-> phoneNumber, amount |-> amount],
          reply |-> Reply(0, JObject)]

\* /initiate-payment up to `await daraja.stkPush(...)`: the validation
InitiatePayment(phoneNumber, amount) ==
    IF ~MatchesPhone(phoneNumber)
    THEN [paying |-> NoPayment,
          reply |-> Reply(400, [success |-> FALSE,
                message |-> <<"Invalid phone number format. Use 254XXXXXXXXX">>])]
    ELSE IF amount < 1
    THEN [paying |-> NoPayment,
          reply |-> Reply(400, [success |-> FALSE,
                message |-> <<"Amount must be at least 1 KES">>])]
    ELSE [paying |-> [phoneNumber |-> phoneNumber, amount |-> amount],
          reply |-> Reply(0, JObject)]

\* /initiate-payment after the await: stkPush returned or threw
RegisterPending(map, result, t) ==
    IF result.kind = "return"
    THEN Handled([map EXCEPT ![result.value.CheckoutRequestID] =
                    [status |-> "PENDING", timestamp |-> t]],
                 Reply(200, [success |-> TRUE, message |-> <<"Payment initiated">>,
                             CheckoutRequestID |-> result.value.CheckoutRequestID]))
    ELSE Handled(map, Reply(500, [success |-> FALSE,
                                  message |-> result.error.message]))

\* What the server handled last: the route, the identifier it concerned, the
\* request (for the cleanup timer: the keys it deleted) and the reply; for a
\* callback also whether it was delivered again, that is, found the record as
\* a callback with this body leaves it.
NoEvent ==
    [route |-> "none", id |-> NoId, input |-> JObject, reply |-> Reply(0, JObject),
     again |-> FALSE]

Event(route, id, input, reply, again) ==
    [route |-> route, id |-> id, input |-> input, reply |-> reply, again |-> again]

\* The record is the one a callback with this body leaves (but for its time).
LeftBy(sv, record, body) ==
    /\ WellFormed(body)
    /\ IF sv = "tracking"
       THEN /\ record.status \in {"COMPLETE", "FAILED"}
            /\ (record.status = "COMPLETE") = (body.Body.stkCallback.ResultCode = 0)
            /\ record.message = body.Body.stkCallback.ResultDesc
       ELSE /\ record.status = "SUCCESS"
            /\ record.rawCallback = body

NoSettled == "none"
NotPolled == "no"
Unwatched == "unwatched"

\* No demo server runs (the client is followed on its own).
ServerOff ==
    /\ server = "none"
    /\ transactions = NoTransactions
    /\ clock = 0
    /\ sweepDue = HourMs
    /\ paying = NoPayment
    /\ last = NoEvent
    /\ settled = [id \in Ids |-> NoSettled]
    /\ polled = [id \in Ids |-> Unwatched]

Servers == {"tracking", "logging"}

\* A request reaches /mpesa/callback.
Callback(method, body) ==
    /\ server \in Servers
    /\ server = "tracking" => method = "POST"
    /\ method = "GET" => body = JObject
    /\ LET r == IF server = "tracking"
                THEN TrackingCallback(transactions, body, clock)
                ELSE LoggingCallback(transactions, method, body, clock)
           id == IF method = "POST" /\ WellFormed(body)
                 THEN body.Body.stkCallback.CheckoutRequestID ELSE NoId
           before == IF id \in Ids THEN transactions[id] ELSE NoRecord
       IN  /\ transactions' = r.transactions
           /\ last' = Event("callback", id, [method |-> method, body |-> body],
                            r.reply,
                            id \in Ids /\ LeftBy(server, before, body))
           /\ settled' = IF before.status = "PENDING"
                         THEN [settled EXCEPT ![id] = r.transactions[id].status]
                         ELSE settled
    /\ UNCHANGED <<server, clock, sweepDue, paying, polled>>
    /\ UNCHANGED <<cfgVars, runVars>>

\* A status query: /payment-status/:id or /transaction/:id.
Query(id) ==
    /\ server \in Servers
    /\ LET r == IF server = "tracking"
                THEN PaymentStatus(transactions, id)
                ELSE GetTransaction(transactions, id)
       IN  /\ transactions' = r.transactions
           /\ last' = Event("status", id, JObject, r.reply, FALSE)
           /\ polled' = IF /\ polled[id] # Unwatched
                           /\ r.reply.body.status \in {"COMPLETE", "FAILED"}
                        THEN [polled EXCEPT ![id] = IF polled[id] \in {"once", "again"}
                                                    THEN "again" ELSE "once"]
                        ELSE polled
    /\ UNCHANGED <<server, clock, sweepDue, paying, settled>>
    /\ UNCHANGED <<cfgVars, runVars>>

\* A request reaches /initiate-payment: it is refused, or stkPush is awaited
\* (the request then has no reply yet).
PayStart(phoneNumber, amount) ==
    /\ server = "tracking"
    /\ paying = NoPayment
    /\ LET r == InitiatePayment(phoneNumber, amount)
       IN  /\ paying' = r.paying
           /\ last' = Event("initiate", NoId,
                            [phoneNumber |-> phoneNumber, amount |-> amount],
                            r.reply, FALSE)
    /\ UNCHANGED <<server, transactions, clock, sweepDue, settled, polled>>
    /\ UNCHANGED <<cfgVars, runVars>>

\* stkPush settles and /initiate-payment runs to its end.
PayDone(ans) ==
    /\ server = "tracking"
    /\ paying # NoPayment
    /\ LET result == Settle("stkPush", ans)
           r == RegisterPending(transactions, result, clock)
           id == IF result.kind = "return"
                 THEN result.value.CheckoutRequestID ELSE NoId
       IN  /\ transactions' = r.transactions
           /\ last' = Event("initiate", id, paying, r.reply, FALSE)
           /\ polled' = IF id \in Ids /\ polled[id] \notin {NotPolled, Unwatched}
                        THEN [polled EXCEPT ![id] = "lost"]
                        ELSE polled
    /\ paying' = NoPayment
    /\ UNCHANGED <<server, clock, sweepDue, settled>>
    /\ UNCHANGED <<cfgVars, runVars>>

\* The cleanup timer fires when it is due (setInterval, every hour) and is
\* armed again.
Sweep ==
    /\ server = "tracking"
    /\ clock = sweepDue
    /\ transactions' = Cleanup(transactions, clock)
    /\ sweepDue' = clock + HourMs
    /\ last' = Event("sweep", NoId,
                     [deleted |-> {id \in Ids : transactions[id] # NoRecord
                                     /\ Cleanup(transactions, clock)[id] = NoRecord}],
                     Reply(0, JObject), FALSE)
    /\ settled' = [id \in Ids |->
                      IF Cleanup(transactions, clock)[id] = NoRecord
                      THEN NoSettled ELSE settled[id]]
    /\ polled' = [id \in Ids |->
                     IF /\ polled[id] \notin {NotPolled, Unwatched}
                        /\ transactions[id] # NoRecord
                        /\ clock - transactions[id].timestamp > HourMs
                     THEN "lost" ELSE polled[id]]
    /\ UNCHANGED <<server, clock, paying>>
    /\ UNCHANGED <<cfgVars, runVars>>

\* Time passes, up to the instant the cleanup timer is due.
Tick ==
    /\ server \in Servers
    /\ clock < MaxTicks * TickMs
    /\ server = "tracking" => clock < sweepDue
    /\ clock' = clock + TickMs
    /\ UNCHANGED <<server, transactions, sweepDue, paying, last, settled, polled>>
    /\ UNCHANGED <<cfgVars, runVars>>

-----------------------------------------------------------------------------
(* Environments and configurations *)

NoEnv == [n \in EnvNames |-> undefined]

\* process.env as tests/setup.js sets it
SetupEnv ==
    [NoEnv EXCEPT !["CONSUMER_KEY"] = "test_consumer_key",
                  !["CONSUMER_SECRET"] = "test_consumer_secret",
                  !["BUSINESS_SHORT_CODE"] = "174379",
                  !["PASS_KEY"] = "test_pass_key",
                  !["CALLBACK_URL"] = "https://example.com/callback"]

\* process.env loaded from the .env file of the README
ReadmeEnv ==
    [NoEnv EXCEPT !["CONSUMER_KEY"] = "your_consumer_key",
                  !["CONSUMER_SECRET"] = "your_consumer_secret",
                  !["BUSINESS_SHORT_CODE"] = "174379",
                  !["PASS_KEY"] = "your_pass_key",
                  !["CALLBACK_URL"] = "your_callback_url",
                  !["ENVIRONMENT"] = "sandbox",
                  !["TIMEOUT_URL"] = "your_timeout_url",
                  !["RESULT_URL"] = "your_result_url",
                  !["INITIATOR_NAME"] = "your_initiator_name",
                  !["SECURITY_CREDENTIAL"] = "your_security_credential"]

\* a .env file holding only the README's block of optional settings
OptionalOnlyEnv ==
    [NoEnv EXCEPT !["ENVIRONMENT"] = "sandbox",
                  !["TIMEOUT_URL"] = "your_timeout_url",
                  !["RESULT_URL"] = "your_result_url",
                  !["INITIATOR_NAME"] = "your_initiator_name",
                  !["SECURITY_CREDENTIAL"] = "your_security_credential"]

EnvProfiles == {NoEnv, SetupEnv, ReadmeEnv, OptionalOnlyEnv}

EmptyConfig == [f \in FieldSet |-> undefined]

CfgVal(f) == "cfg:" \o f

\* The configuration objects a caller may pass: per field nothing, an empty
\* string or a value of its own.
Configs ==
    [consumerKey : {undefined, "", CfgVal("consumerKey")},
     consumerSecret : {undefined, "", CfgVal("consumerSecret")},
     environment : {undefined, "production"},
     businessShortCode : {undefined, "", CfgVal("businessShortCode")},
     passKey : {undefined, "", CfgVal("passKey")},
     callbackUrl : {undefined, "", CfgVal("callbackUrl")},
     timeoutUrl : {undefined, CfgVal("timeoutUrl")},
     resultUrl : {undefined, CfgVal("resultUrl")},
     initiatorName : {undefined, "", CfgVal("initiatorName")},
     securityCredential : {undefined, "", CfgVal("securityCredential")}]

\* The configurations of the clients whose operations are followed.
ClientConfigs ==
    {EmptyConfig,
     [EmptyConfig EXCEPT !["passKey"] = "bfb279f9"],
     [EmptyConfig EXCEPT !["passKey"] = "bfb279f9a", !["environment"] = "production"]}

InitRun ==
    /\ pc = [c \in Callers |-> "idle"]
    /\ op = [c \in Callers |-> "none"]
    /\ callNo = [c \in Callers |-> 0]
    /\ args = [c \in Callers |-> NoArgs]
    /\ http = [c \in Callers |-> NoRequest]
    /\ answered = [c \in Callers |-> NoAnswered]
    /\ outcome = [c \in Callers |-> NoOutcome]
    /\ calls = 0
    /\ netlog = <<>>

\* new DarajaSDK(config): the object, or the error of validateConfig
New ==
    /\ sdk = NoSDK /\ thrown = NoError
    /\ sdk' = Constructor(config, env).obj
    /\ thrown' = Constructor(config, env).err
    /\ UNCHANGED <<env, config, pc, op, callNo, args, http, answered, outcome, calls, netlog>>
    /\ UNCHANGED srvVars

-----------------------------------------------------------------------------
(* Specifications *)

\* Construction: any configuration object under any of the environments.
InitConfig ==
    /\ env \in EnvProfiles
    /\ config \in Configs
    /\ sdk = NoSDK
    /\ thrown = NoError
    /\ InitRun
    /\ ServerOff

NextConfig == New

SpecConfig == InitConfig /\ [][NextConfig]_vars

\* One constructed client used by one caller, one invocation after the other.
Init ==
    /\ env = ReadmeEnv
    /\ config \in ClientConfigs
    /\ sdk = Constructor(config, env).obj
    /\ thrown = Constructor(config, env).err
    /\ sdk.constructed
    /\ InitRun
    /\ ServerOff

Next ==
    \/ \E o \in Methods : \E a \in ArgsOf(o) : Call(1, o, a)
    \/ \E ans \in TokenAnswers : TokenAnswer(1, ans)
    \/ \E now \in Times : Resume(1, now)
    \/ \E ans \in PostAnswers : PostAnswer(1, ans)

Spec == Init /\ [][Next]_vars

\* The same with the runtime doing its part: a method whose await has been
\* answered is resumed.  Nothing makes the gateway answer: the requests are
\* issued without a timeout (axios then waits as long as it takes).
SpecFair == Spec /\ WF_vars(\E now \in Times : Resume(1, now))

\* A demo server with its client constructed, serving requests as they come.
InitServer ==
    /\ env = ReadmeEnv
    /\ config = EmptyConfig
    /\ sdk = Constructor(config, env).obj
    /\ thrown = Constructor(config, env).err
    /\ InitRun
    /\ server \in Servers
    /\ transactions = NoTransactions
    /\ clock = 0
    /\ sweepDue = HourMs
    /\ paying = NoPayment
    /\ last = NoEvent
    /\ settled = [id \in Ids |-> NoSettled]
    /\ polled = [id \in Ids |-> Unwatched]

NextServer ==
    \/ \E body \in CallbackBodies : Callback("POST", body)
    \/ Callback("GET", JObject)
    \/ \E id \in Ids : Query(id)
    \/ \E phoneNumber \in Phones : \E amount \in Amounts : PayStart(phoneNumber, amount)
    \/ \E ans \in PushAnswers : PayDone(ans)
    \/ Sweep
    \/ Tick

SpecServer == InitServer /\ [][NextServer]_vars

\* The demo servers with their timers running: the clock goes on, and the
\* cleanup timer of the tracking server fires whenever it is due.
SpecServerFair == SpecServer /\ WF_vars(Tick) /\ WF_vars(Sweep)

\* The tracking server with the polls of its page followed: payments are
\* initiated, paid or cancelled, polled and swept.
InitPolls ==
    /\ env = ReadmeEnv
    /\ config = EmptyConfig
    /\ sdk = Constructor(config, env).obj
    /\ thrown = Constructor(config, env).err
    /\ InitRun
    /\ server = "tracking"
    /\ transactions = NoTransactions
    /\ clock = 0
    /\ sweepDue = HourMs
    /\ paying = NoPayment
    /\ last = NoEvent
    /\ settled = [id \in Ids |-> NoSettled]
    /\ polled = [id \in Ids |-> NotPolled]

NextPolls ==
    \/ \E id \in Ids : \E cb \in {Paid(id), Cancelled(id)} :
          Callback("POST", CallbackBody(cb))
    \/ \E id \in Ids : Query(id)
    \/ PayStart("254712345678", 1)
    \/ \E ans \in PushAnswers : PayDone(ans)
    \/ Sweep
    \/ Tick

SpecPolls == InitPolls /\ [][NextPolls]_vars

\* One constructed client used by several callers at once: an invocation may
\* start while others await their answers.
ConcCallers == {1, 2}

ConcOps == {"stkPush", "accountBalance"}

ConcTokenAnswers ==
    {Response(200, [json |-> "object", access_token |-> t, expires_in |-> "3599"]) :
        t \in Tokens}
    \cup {Response(200, [json |-> "object"]),
          Response(401, [json |-> "object", errorMessage |-> "Invalid credentials"])}

ConcPostAnswers ==
    {Response(200, [json |-> "object", ResponseCode |-> "0",
                    ResponseDescription |-> "Success"]),
     Response(401, [json |-> "object", errorMessage |-> "Invalid Access Token"])}

InitConc ==
    /\ env = ReadmeEnv
    /\ config = EmptyConfig
    /\ sdk = Constructor(config, env).obj
    /\ thrown = Constructor(config, env).err
    /\ InitRun
    /\ ServerOff

NextConc ==
    \/ \E c \in ConcCallers : \E o \in ConcOps : \E a \in ArgsOf(o) : Call(c, o, a)
    \/ \E c \in ConcCallers : \E ans \in ConcTokenAnswers : TokenAnswer(c, ans)
    \/ \E c \in ConcCallers : \E now \in Times : Resume(c, now)
    \/ \E c \in ConcCallers : \E ans \in ConcPostAnswers : PostAnswer(c, ans)

SpecConc == InitConc /\ [][NextConc]_vars

-----------------------------------------------------------------------------
(* Claims about construction (SpecConfig) *)

\* A value for field f is at hand: a non-empty one in the configuration
\* object or in the environment.
Available(f) == Truthy(config[f]) \/ Truthy(env[EnvName[f]])

\* The labels of the required fields for which no value is at hand.
MissingLabels ==
    {required[i][1] : i \in {j \in 1..Len(required) : ~Available(required[j][2])}}

\* The field names an error message of validateConfig lists.
NamedIn(e) == {e.message[i] : i \in 2..(Len(e.message) - 1)} \ {", "}

Attempted == sdk.constructed \/ thrown # NoError

\* C1: construction succeeds when every required field has a value in the
\* configuration object or the environment; when one or more have none it
\* throws, and the error lists exactly the missing required fields, each
\* once.
C1_ConstructionListsMissing ==
    Attempted =>
        /\ MissingLabels = {} => (sdk.constructed /\ thrown = NoError)
        /\ MissingLabels # {} =>
              /\ ~sdk.constructed
              /\ thrown.name = "Error"
              /\ thrown.message[1] = "Missing required configuration: "
              /\ NamedIn(thrown) = MissingLabels
              /\ Len(thrown.message) = 2 * Cardinality(MissingLabels) + 1

C1_Witness ==
    /\ thrown # NoError
    /\ Cardinality(MissingLabels) = 3
    /\ "Pass Key" \in MissingLabels
    /\ Truthy(config["consumerKey"])
    /\ Truthy(env["INITIATOR_NAME"])

\* The fields the README lists as required.
ReadmeRequired ==
    {"consumerKey", "consumerSecret", "businessShortCode", "passKey", "callbackUrl"}

\* The fields the README lists as optional (environment has a default).
ReadmeOptional ==
    {"timeoutUrl", "resultUrl", "initiatorName", "securityCredential"}

\* C2: timeout URL, result URL, initiator name and security credential are
\* optional: with a value at hand for consumer key, consumer secret, short
\* code, pass key and callback URL only, the client is constructed.
C2_OptionalFieldsOptional ==
    (/\ Attempted
     /\ \A f \in ReadmeRequired : Available(f)
     /\ \A f \in ReadmeOptional : ~Available(f))
    => (sdk.constructed /\ thrown = NoError)

\* C3: a field given both in the configuration object and in the environment
\* takes the configuration's value; the environment's value is used only for
\* a field the configuration gives no (non-empty) value.
C3_ExplicitOverEnvironment ==
    sdk.constructed =>
        \A f \in FieldSet :
            /\ Truthy(config[f]) => sdk.fields[f] = config[f]
            /\ (~Truthy(config[f]) /\ Truthy(env[EnvName[f]]))
                  => sdk.fields[f] = env[EnvName[f]]
            /\ sdk.fields[f] # config[f] => ~Truthy(config[f])

C3_Witness ==
    /\ sdk.constructed
    /\ Truthy(config["passKey"]) /\ Truthy(env["PASS_KEY"])
    /\ config["passKey"] # env["PASS_KEY"]
    /\ config["environment"] = "production" /\ env["ENVIRONMENT"] = "sandbox"
    /\ config["callbackUrl"] = "" /\ sdk.fields["callbackUrl"] = env["CALLBACK_URL"]

-----------------------------------------------------------------------------
(* Claims about the client's operations (Spec) *)

Requests(kind) == {i \in DOMAIN netlog : netlog[i].kind = kind}

\* Only gateway operations were invoked, never generateToken itself.
OnlyOperations == \A i \in Requests("get") : ~netlog[i].direct

\* Every token exchange answered so far yielded a token.
ExchangesSucceeded ==
    \A i \in Requests("answer") : netlog[i].to = "get" => netlog[i].token

\* C4: the bearer token is cached.  In a run of gateway operations, one after
\* the other, on a client that starts without a token and whose token
\* exchange yields a token, the first operation issues the one and only
\* token request of the run.
C4_OneTokenExchange ==
    (OnlyOperations /\ ExchangesSucceeded /\ calls >= 1) =>
        /\ Cardinality(Requests("get")) = 1
        /\ netlog[1].kind = "get" /\ netlog[1].call = 1
        /\ \A n \in 2..calls : Count("get", n) = 0

C4_Witness ==
    /\ OnlyOperations /\ ExchangesSucceeded
    /\ calls = 2 /\ callNo[1] = 2 /\ pc[1] = "done"
    /\ Count("post", 1) = 1 /\ Count("post", 2) = 1
    /\ Cardinality(Requests("get")) = 1

\* C5: no retries.  An invocation issues at most one token request and at
\* most one operation request; after an answer that is a failure it issues
\* nothing more, and the invocation ends by throwing.
C5_NoRetry ==
    /\ \A n \in 1..calls : Count("get", n) <= 1 /\ Count("post", n) <= 1
    /\ \A i \in Requests("answer") :
          ~netlog[i].ok =>
              \A j \in DOMAIN netlog :
                  (j > i /\ netlog[j].call = netlog[i].call)
                      => (netlog[j].kind = "answer" /\ netlog[j].to # netlog[i].to)
    /\ \A c \in Callers :
          (answered[c].to = "post" /\ ~Is2xx(answered[c].ans))
              => (pc[c] = "done" /\ outcome[c].kind = "throw")

C5_Witness ==
    /\ pc[1] = "done" /\ op[1] = "b2c"
    /\ answered[1].to = "post" /\ answered[1].ans.kind = "response"
    /\ answered[1].ans.status = 401
    /\ outcome[1].kind = "throw"
    /\ Count("get", callNo[1]) = 1 /\ Count("post", callNo[1]) = 1

\* The message of the error axios rejects with for an answer.
UpstreamMessage(ans) ==
    IF ans.kind = "response"
    THEN <<"Request failed with status code ", ToString(ans.status)>>
    ELSE <<"Network Error">>

TokenExchangeFailed(c) ==
    /\ pc[c] = "done"
    /\ answered[c].to = "get"
    /\ ~Is2xx(answered[c].ans)

\* C6: when the token exchange fails (no response, or a response that is not
\* 2xx), generateToken throws 'Token generation failed: ' followed by the
\* upstream message; an operation that triggered the exchange throws its own
\* '... failed: ' error wrapping that message and issues no request of its own.
C6_TokenFailure ==
    \A c \in Callers :
        TokenExchangeFailed(c) =>
            /\ outcome[c].kind = "throw"
            /\ outcome[c].error.name = "Error"
            /\ LET tokenMsg == <<"Token generation failed: ">>
                                 \o UpstreamMessage(answered[c].ans)
                   msg == outcome[c].error.message
               IN  IF op[c] = "generateToken"
                   THEN msg = tokenMsg
                   ELSE /\ msg = <<PrefixOf(op[c])>> \o tokenMsg
                        /\ Count("post", callNo[c]) = 0

C6_Witness ==
    /\ TokenExchangeFailed(1)
    /\ op[1] = "stkPush"
    /\ answered[1].ans.kind = "response" /\ answered[1].ans.status = 401
    /\ outcome[1].error.message =
          <<"STK push failed: ", "Token generation failed: ",
            "Request failed with status code ", "401">>

\* The value of a base64 character.
B64Val(ch) ==
    IF ch >= 65 /\ ch <= 90 THEN ch - 65
    ELSE IF ch >= 97 /\ ch <= 122 THEN ch - 97 + 26
    ELSE IF ch >= 48 /\ ch <= 57 THEN ch - 48 + 52
    ELSE IF ch = 43 THEN 62 ELSE 63

\* The bytes a base64 text stands for.
RECURSIVE Base64Decode(_)
Base64Decode(t) ==
    IF Len(t) < 4 THEN <<>>
    ELSE LET a == B64Val(t[1])
             b == B64Val(t[2])
             c == B64Val(t[3])
             d == B64Val(t[4])
         IN  (IF t[3] = 61 THEN <<a * 4 + b \div 16>>
              ELSE IF t[4] = 61
              THEN <<a * 4 + b \div 16, (b % 16) * 16 + c \div 4>>
              ELSE <<a * 4 + b \div 16, (b % 16) * 16 + c \div 4, (c % 4) * 64 + d>>)
             \o Base64Decode(SubSeq(t, 5, Len(t)))

\* YYYYMMDDHHmmss of an instant
Stamp14(t) ==
    Pad(t.year, 4) \o Pad(t.month, 2) \o Pad(t.day, 2) \o Pad(t.hour, 2)
    \o Pad(t.minute, 2) \o Pad(t.second, 2)

SignedInFlight(c) ==
    http[c].method = "post" /\ op[c] \in {"stkPush", "stkPushQuery"}

\* C7: every request of stkPush and stkPushQuery carries a Timestamp of
\* exactly 14 digits, YYYYMMDDHHmmss of the time of the call, and a Password
\* that is the base64 text of short code + pass key + that same Timestamp.
C7_TimestampAndPassword ==
    \A c \in Callers :
        SignedInFlight(c) =>
            LET d == http[c].data
                plain == Chars(sdk.fields["businessShortCode"])
                           \o Chars(sdk.fields["passKey"]) \o d.Timestamp
            IN  /\ Len(d.Timestamp) = 14
                /\ \A i \in 1..Len(d.Timestamp) : IsDigit(d.Timestamp[i])
                /\ \E t \in Times : d.Timestamp = Stamp14(t)
                /\ Len(d.Password) = 4 * ((Len(plain) + 2) \div 3)
                /\ Base64Decode(d.Password) = plain

C7_Witness ==
    /\ SignedInFlight(1) /\ op[1] = "stkPush"
    /\ sdk.fields["passKey"] = "bfb279f9"
    /\ http[1].data.Timestamp = <<50, 48, 50, 52, 48, 49, 48, 50, 48, 51, 48, 52, 48, 53>>
    /\ http[1].data.Password[Len(http[1].data.Password)] = 61

OperationAnswered2xx(c) ==
    /\ pc[c] = "done"
    /\ answered[c].to = "post"
    /\ Is2xx(answered[c].ans)

\* C8: when the gateway answers an operation's request with a 2xx response,
\* the operation returns exactly the body of that response.
C8_ResponseVerbatim ==
    \A c \in Callers :
        OperationAnswered2xx(c) => outcome[c] = Returned(answered[c].ans.data)

C8_Witness ==
    /\ OperationAnswered2xx(1) /\ op[1] = "accountBalance"
    /\ outcome[1].kind = "return"
    /\ outcome[1].value =
          [json |-> "object", ResponseCode |-> "0", ResponseDescription |-> "Success"]

\* The invocation of caller c has failed: its token exchange did not give
\* generateToken a result, or its own request was not answered 2xx.
Failed(c) ==
    /\ pc[c] = "done"
    /\ \/ answered[c].to = "get" /\ op[c] # "generateToken"
       \/ answered[c].to = "post" /\ ~Is2xx(answered[c].ans)

\* What the catch block of an operation wraps: the message of the error of
\* generateToken, or of the error axios rejected the operation's request with.
CaughtMessage(c) ==
    IF answered[c].to = "post" THEN UpstreamMessage(answered[c].ans)
    ELSE IF Is2xx(answered[c].ans)
    THEN <<"Token generation failed: ",
           "Cannot read properties of null (reading '", "access_token", "')">>
    ELSE <<"Token generation failed: ">> \o UpstreamMessage(answered[c].ans)

\* The errorMessage field of the error response body, when there is one.
HasErrorMessage(c) ==
    /\ answered[c].to = "post"
    /\ answered[c].ans.kind = "response"
    /\ answered[c].ans.data.json = "object"
    /\ Truthy(Prop(answered[c].ans.data, "errorMessage"))

\* C9: every failure of stkPush is thrown as 'STK push failed: ' followed by
\* the errorMessage of the error response body when the gateway sent one, and
\* by the upstream error message otherwise.
C9_StkPushFailureMessage ==
    \A c \in Callers :
        (Failed(c) /\ op[c] = "stkPush") =>
            /\ outcome[c].kind = "throw"
            /\ outcome[c].error.message =
                  <<"STK push failed: ">>
                  \o (IF HasErrorMessage(c)
                      THEN <<answered[c].ans.data.errorMessage>>
                      ELSE CaughtMessage(c))

OtherOps == Ops \ {"stkPush"}

\* C10: b2c, transactionStatus, accountBalance, c2bRegisterUrl, c2bSimulate,
\* b2b, reversal and stkPushQuery throw on every failure, with a message that
\* is the operation's own prefix followed by the upstream message, and never
\* with the prefix of another method.
C10_OwnPrefix ==
    \A c \in Callers :
        (Failed(c) /\ op[c] \in OtherOps) =>
            /\ outcome[c].kind = "throw"
            /\ outcome[c].error.message = <<PrefixOf(op[c])>> \o CaughtMessage(c)
            /\ \A o \in Methods \ {op[c]} : outcome[c].error.message[1] # PrefixOf(o)

C10_Witness ==
    /\ Failed(1) /\ op[1] = "reversal"
    /\ answered[1].to = "post" /\ answered[1].ans = Response(400, JNull)
    /\ outcome[1].error.message =
          <<"Transaction reversal failed: ", "Request failed with status code ", "400">>

-----------------------------------------------------------------------------
(* Claims about the demo servers (SpecServer) *)

Terminal == {"COMPLETE", "SUCCESS", "FAILED"}

\* The last request handled was a POST to /mpesa/callback.
CallbackHandled == last.route = "callback" /\ last.input.method = "POST"

\* C11: every POST to /mpesa/callback, whatever its body, is answered with
\* status 200 and exactly { ResultCode: 0, ResultDesc: "Success" }.
C11_CallbackAlwaysAcknowledged == CallbackHandled => last.reply = Ack

\* C12: no step takes the record of an identifier from a terminal status to
\* another status while the record is kept.
C12_NoTransitionOutOfTerminal ==
    [][\A id \in Ids :
          (transactions[id].status \in Terminal /\ transactions'[id] # NoRecord)
              => transactions'[id].status = transactions[id].status]_vars

\* C13: no step takes a record that is in a terminal status back to PENDING.
C13_NeverResetToPending ==
    [][\A id \in Ids :
          transactions[id].status \in Terminal
              => transactions'[id].status # "PENDING"]_vars

\* The step handles a POST of this body to /mpesa/callback, and the record of
\* its identifier is already the one a callback with this body leaves.
Redelivery(body) ==
    /\ Callback("POST", body)
    /\ WellFormed(body)
    /\ LeftBy(server, transactions[body.Body.stkCallback.CheckoutRequestID], body)

\* The time a record stored now carries.
Stamp == IF server = "tracking" THEN [timestamp |-> clock]
         ELSE [timestamp |-> IsoText(clock)]

WellFormedCallbackHandled == CallbackHandled /\ WellFormed(last.input.body)
HandledCallback == last.input.body.Body.stkCallback

\* C15: after a callback for an identifier is handled, registered before or
\* not, with or without metadata items, the identifier has a record; its status
\* is the success status if and only if ResultCode = 0, and otherwise it is
\* FAILED with ResultDesc as its message.
C15_CallbackSetsStatus ==
    WellFormedCallbackHandled =>
        LET record == transactions[HandledCallback.CheckoutRequestID]
        IN  /\ record # NoRecord
            /\ IF HandledCallback.ResultCode = 0
               THEN record.status \in {"COMPLETE", "SUCCESS"}
               ELSE /\ record.status = "FAILED"
                    /\ record.message = HandledCallback.ResultDesc

\* What a status query answers for an identifier without a record.
NotFound ==
    Reply(200, [status |-> IF server = "tracking" THEN "UNKNOWN" ELSE "not_found",
                message |-> "Transaction not found"])

\* C16: a status query is answered (status 200) and leaves the Map as it was;
\* for an identifier without a record the answer is the not-found sentinel.
C16_QueryReadsOnly ==
    [][\A id \in Ids :
          Query(id) =>
             /\ transactions' = transactions
             /\ last'.reply.status = 200
             /\ transactions[id] = NoRecord => last'.reply = NotFound]_vars

\* An identifier without a record was asked for while the other had one.
C16_Witness ==
    /\ last.route = "status" /\ last.id = "ws_CO_2"
    /\ last.reply = NotFound
    /\ transactions["ws_CO_2"] = NoRecord
    /\ transactions["ws_CO_1"] # NoRecord

\* C17: one run of the cleanup deletes exactly the records stored more than
\* one hour before the run, and leaves every other record as it was.
C17_SweepRemovesOld ==
    [][Sweep =>
          \A id \in Ids :
             IF transactions[id] # NoRecord /\ clock - transactions[id].timestamp > HourMs
             THEN transactions'[id] = NoRecord
             ELSE transactions'[id] = transactions[id]]_vars

\* A run deleted a record and kept one that was exactly one hour old.
C17_Witness ==
    /\ last.route = "sweep" /\ last.input.deleted = {"ws_CO_1"}
    /\ clock = 2 * HourMs
    /\ transactions["ws_CO_1"] = NoRecord
    /\ transactions["ws_CO_2"] # NoRecord
    /\ transactions["ws_CO_2"].timestamp = HourMs

\* C18: once a payment was registered as PENDING and its callback handled,
\* every poll of the tracking server for that identifier, for as long as the
\* record is kept, answers the status that callback set.
C18_PollReturnsCallbackStatus ==
    (server = "tracking" /\ last.route = "status" /\ settled[last.id] # NoSettled)
        => last.reply.body.status = settled[last.id]

\* The callback handled last reports a paid payment and carries a list of
\* metadata items.
PaidWithItemsHandled ==
    /\ WellFormedCallbackHandled
    /\ HandledCallback.ResultCode = 0
    /\ Has(HandledCallback, "CallbackMetadata")
    /\ Has(HandledCallback.CallbackMetadata, "Item")
    /\ HandledCallback.CallbackMetadata.Item.json = "array"

HandledItems == HandledCallback.CallbackMetadata.Item.items

\* The Value of the item of that Name (of the first, if several), or null.
ValueOf(items, name) ==
    IF \E i \in DOMAIN items : items[i].Name = name
    THEN LET i == CHOOSE i \in DOMAIN items :
                     /\ items[i].Name = name
                     /\ \A j \in DOMAIN items : items[j].Name = name => i <= j
         IN  items[i].Value
    ELSE null

MetadataFields ==
    {<<"amount", "Amount">>, <<"receiptNumber", "MpesaReceiptNumber">>,
     <<"transactionDate", "TransactionDate">>, <<"phoneNumber", "PhoneNumber">>}

-----------------------------------------------------------------------------
(* Claims about concurrent callers of one client (SpecConc) *)

\* The answers to token exchanges so far, and the latest of them.
GetAnswers == {i \in Requests("answer") : netlog[i].to = "get"}
LastGetAnswer == CHOOSE i \in GetAnswers : \A j \in GetAnswers : j <= i

\* Every operation request answered so far was answered with a 2xx status.
PostsSucceeded ==
    \A i \in Requests("answer") : netlog[i].to = "post" => netlog[i].ok

\* C20: operations invoked concurrently on a client without a token, with a
\* gateway whose token exchanges yield tokens.  No invocation issues more than
\* one token request; once an exchange has completed a token is cached, and it
\* is the token of the exchange that completed last; every operation request
\* in flight carries a token that one of the exchanges returned; and when the
\* gateway answers the operation requests with 2xx, every invocation returns.
C20_ConcurrentTokenExchanges ==
    ExchangesSucceeded =>
        /\ \A n \in 1..calls : Count("get", n) <= 1
        /\ GetAnswers # {} =>
              /\ Truthy(sdk.auth)
              /\ sdk.auth = netlog[LastGetAnswer].value
        /\ \A c \in ConcCallers :
              http[c].method = "post" =>
                 http[c].credential \in {netlog[i].value : i \in GetAnswers}
        /\ PostsSucceeded =>
              \A c \in ConcCallers : pc[c] = "done" => outcome[c].kind = "return"

\* Two callers invoked an operation at once, each issued its own token
\* request, the exchanges yielded different tokens, and both operations
\* returned; the token cached is the one that arrived last.
C20_Witness ==
    /\ ExchangesSucceeded /\ PostsSucceeded
    /\ calls = 2 /\ callNo[1] = 1 /\ callNo[2] = 2
    /\ Count("get", 1) = 1 /\ Count("get", 2) = 1
    /\ netlog[1].kind = "get" /\ netlog[2].kind = "get"
    /\ Cardinality(GetAnswers) = 2
    /\ \E i \in GetAnswers : netlog[i].value # sdk.auth
    /\ sdk.auth = netlog[LastGetAnswer].value
    /\ pc[1] = "done" /\ pc[2] = "done"
    /\ outcome[1].kind = "return" /\ outcome[2].kind = "return"
-----------------------------------------------------------------------------
(* Claims about the cached token and the requests of one caller (Spec) *)

\* C21 as the specification states it: once the client holds a token, no step
\* of any method clears it or replaces it with another value.
C21_CredentialNeverReplaced ==
    [][Truthy(sdk.auth) => sdk'.auth = sdk.auth]_vars

\* C21: once the client holds a token, the only step that changes it is the
\* answer to a direct call of generateToken that the token endpoint answered
\* with 2xx and a body; the token is then what that body carries as
\* access_token (nothing, when it carries none).  An operation, failed or
\* not, and a failed exchange leave the token as it is.
C21_OnlyGenerateTokenReplaces ==
    [][(Truthy(sdk.auth) /\ sdk'.auth # sdk.auth) =>
          /\ op[1] = "generateToken"
          /\ pc[1] = "token"
          /\ \E ans \in TokenAnswers :
                /\ TokenAnswer(1, ans)
                /\ Is2xx(ans)
                /\ ans.data.json # "null"
                /\ sdk'.auth = Prop(ans.data, "access_token")]_vars

\* A first invocation obtained a token, a direct call of generateToken
\* followed, and the client now holds the other token.
C21_Witness ==
    /\ calls = 2
    /\ op[1] = "generateToken"
    /\ pc[1] = "done"
    /\ Truthy(sdk.auth)
    /\ \E i \in Requests("answer") :
          /\ netlog[i].call = 1
          /\ netlog[i].token
          /\ netlog[i].value # sdk.auth
-----------------------------------------------------------------------------
(* Claims about the demo servers with their timers running (SpecServerFair) *)

\* The Map holds a record of the identifier that was stored at instant t.
StoredAt(id, t) ==
    /\ transactions[id] # NoRecord
    /\ transactions[id].timestamp = (IF server = "tracking" THEN t ELSE IsoText(t))

\* The instants at least two hours before the end of the run: a record
\* stored then is more than one hour old when a later cleanup is due.
EarlyInstants == {k * TickMs : k \in 0..(MaxTicks - 2)}

\* C22: every record is collected.  A record whose timestamp is not renewed
\* is removed in the end (by the cleanup, once it is older than one hour).
C22_EveryRecordCollected ==
    \A id \in Ids : \A t \in EarlyInstants :
        StoredAt(id, t) ~> ~StoredAt(id, t)

\* The same of the tracking server alone, which has the cleanup timer.
C22_CollectedByTrackingServer ==
    \A id \in Ids : \A t \in EarlyInstants :
        (server = "tracking" /\ StoredAt(id, t)) ~> ~StoredAt(id, t)
\* An invocation of the caller has started and has not returned or thrown.
Pending(c) == pc[c] \in {"token", "resume", "post"}

\* C23: every invocation completes in the end, returning or throwing, also
\* when the gateway never answers (it then reports a transport failure).
C23_EveryInvocationCompletes ==
    \A c \in {1} : Pending(c) ~> (pc[c] = "done" /\ outcome[c].kind # "none")
\* The caller's b2c request is in flight.
B2CInFlight(c) == http[c].method = "post" /\ op[c] = "b2c"

\* What is sent for an optional argument: the caller's value when one is
\* given (an empty one counts as none), the default otherwise.
GivenOr(v, d) == IF v \in {undefined, null, ""} THEN d ELSE v

\* C24: a b2c request carries the caller's commandID as CommandID, or
\* 'BusinessPayment' when the caller gave none; the caller's remarks as
\* Remarks, or 'B2C Payment'; the amount as Amount and the phone number as
\* PartyB, both as given.
C24_B2CDefaults ==
    B2CInFlight(1) =>
        /\ http[1].data.CommandID = GivenOr(args[1].commandID, "BusinessPayment")
        /\ http[1].data.Remarks = GivenOr(args[1].remarks, "B2C Payment")
        /\ http[1].data.Amount = args[1].amount
        /\ http[1].data.PartyB = args[1].phoneNumber

\* A b2c request without commandID but with remarks of the caller's is in
\* flight, as the second invocation of the client.
C24_Witness ==
    /\ B2CInFlight(1)
    /\ callNo[1] = 2
    /\ args[1].commandID = undefined
    /\ args[1].remarks = "Refund Payment"
    /\ http[1].data.CommandID = "BusinessPayment"
    /\ http[1].data.Remarks = "Refund Payment"
    /\ http[1].data.Amount = 100
    /\ http[1].data.PartyB = "254712345678"
\* C25: no operation request is sent without a token.  Whenever a POST is in
\* flight the client holds a token that is not empty, the request carries it,
\* and a completed exchange returned it; also when the token endpoint
\* answered 2xx with a body that has no access_token.
C25_PostCarriesToken ==
    http[1].method = "post" =>
        /\ Truthy(sdk.auth)
        /\ http[1].credential = sdk.auth
        /\ \E i \in GetAnswers : netlog[i].ok /\ netlog[i].value = http[1].credential
-----------------------------------------------------------------------------
(* Further claims about the demo servers (SpecServer) *)

\* The callback of the identifier was handled while /initiate-payment was
\* awaiting stkPush, as the last thing before stkPush returned it.
CallbackOvertook(id) ==
    /\ paying # NoPayment
    /\ last.route = "callback"
    /\ last.id = id
    /\ transactions[id].status \in Terminal

\* C26: a callback that is handled before /initiate-payment has stored the
\* PENDING record wins: when stkPush then returns the identifier, the record
\* keeps the terminal status the callback gave it.
C26_OvertakingCallbackWins ==
    [][\A ans \in PushAnswers :
          (/\ Is2xx(ans)
           /\ CallbackOvertook(ans.data.CheckoutRequestID)
           /\ PayDone(ans))
          => transactions'[ans.data.CheckoutRequestID].status
                = transactions[ans.data.CheckoutRequestID].status]_vars
-----------------------------------------------------------------------------
(* Claims about the polls of the tracking server (SpecPolls) *)

\* The poll handled last concerned the identifier.
PollOf(id) == last.route = "status" /\ last.id = id

-----------------------------------------------------------------------------
(* Further claims about one caller (Spec) *)

\* The token exchange fails: no answer, an answer that is not 2xx, or a 2xx
\* answer without a body.
FailedExchange(ans) == ~Is2xx(ans) \/ ans.data.json = "null"

\* C28: a step that fails leaves the cached token as it is.  A token exchange
\* that fails leaves the token (or its absence) as before; an operation whose
\* POST fails, with 401 as with any other failure, leaves the token in place;
\* and an operation invoked while a token is cached sends its POST with that
\* token at once, without a new exchange.
C28_FailureKeepsToken ==
    [][/\ \A ans \in TokenAnswers :
             (FailedExchange(ans) /\ TokenAnswer(1, ans)) => sdk'.auth = sdk.auth
       /\ \A ans \in PostAnswers :
             (~Is2xx(ans) /\ PostAnswer(1, ans)) => sdk'.auth = sdk.auth
       /\ \A o \in Ops : \A a \in ArgsOf(o) :
             (Truthy(sdk.auth) /\ Call(1, o, a)) =>
                 /\ pc'[1] = "post"
                 /\ http'[1].credential = sdk.auth]_vars

\* An operation obtained a token and its POST failed; the next operation
\* is in flight with the same token and has requested none.
C28_Witness ==
    /\ calls = 2 /\ callNo[1] = 2
    /\ pc[1] = "post"
    /\ Truthy(sdk.auth)
    /\ http[1].credential = sdk.auth
    /\ Count("get", 1) = 1 /\ Count("get", 2) = 0
    /\ \E i \in Requests("answer") :
          netlog[i].call = 1 /\ netlog[i].to = "get" /\ netlog[i].value = sdk.auth
    /\ \E i \in Requests("answer") :
          netlog[i].call = 1 /\ netlog[i].to = "post" /\ ~netlog[i].ok
    /\ answered[1] = NoAnswered
-----------------------------------------------------------------------------
(* Claims about /initiate-payment of the tracking server (SpecServer) *)

\* The phone numbers of the requests that are 254 followed by nine digits.
PhonesInFormat == {"254712345678"}

-----------------------------------------------------------------------------
(* Further claims about construction (SpecConfig) *)

\* The configured fields that the request bodies carry.
BodyFields ==
    {"businessShortCode", "passKey", "callbackUrl", "initiatorName",
     "securityCredential", "timeoutUrl", "resultUrl"}

\* The operations whose requests name the result and timeout URLs, with the
\* initiator's credential.
ResultOps == {"b2c", "transactionStatus", "reversal"}

\* C30: once a client is constructed, every configured field that a request
\* body carries has a value that is defined and not empty: the short code,
\* the pass key, the callback URL, the initiator name, the security
\* credential, and the timeout and result URLs that are sent as
\* QueueTimeOutURL and ResultURL.
C30_BodyFieldsConfigured ==
    sdk.constructed =>
        /\ \A f \in BodyFields : Truthy(sdk.fields[f])
        /\ \A o \in ResultOps : \A a \in ArgsOf(o) : \A now \in Times :
              LET data == DataOf(o, a, sdk.fields, now)
              IN  /\ Truthy(data.SecurityCredential)
                  /\ Truthy(data.QueueTimeOutURL)
                  /\ Truthy(data.ResultURL)

\* The same without the timeout and result URLs.
C30_ValidatedFieldsConfigured ==
    sdk.constructed =>
        \A f \in BodyFields \ {"timeoutUrl", "resultUrl"} : Truthy(sdk.fields[f])

====
